---- MODULE Spec2Model ----
(***************************************************************************)
(* A model of ceramic-http-client-rs: the request builders of              *)
(* CeramicHttpClient (src/src/lib.rs), the remote operations of            *)
(* CeramicRemoteHttpClient (src/src/lib.rs, mod remote) and the wire types *)
(* of src/src/api.rs (the untagged StreamsResponseOrError and its          *)
(* resolve, TryFrom<Jws> for AdminApiRequest, the query response types).   *)
(*                                                                         *)
(* The signer, the network and the JSON diff are external: the signer and  *)
(* the network are nondeterministic (they may fail, and the remote may     *)
(* answer with any body), the diff is modelled on flat JSON objects.       *)
(***************************************************************************)
EXTENDS Integers, Sequences, FiniteSets, TLC

VARIABLES
    rPc,        \* resolve harness: "json", "resolve" or "done" ("off" when unused)
    rCaller,    \* resolve harness: who calls resolve (an operation, or "direct")
    rContext,   \* resolve harness: the context string passed to resolve
    rBody,      \* resolve harness: the JSON body handed to serde (<<>>: none yet)
    rDecoded,   \* resolve harness: the StreamsResponseOrError serde produced
    rOut,       \* resolve harness: the anyhow::Result of json() followed by resolve
    bPc,        \* builder harness: "call" or "done" ("off" when unused)
    bFn,        \* builder harness: the create_*_request function called
    bArgs,      \* builder harness: its arguments
    bExt,       \* builder harness: what the signer and the encoders do
    bOut,       \* builder harness: what it returned, and the signer calls made
    aPc,        \* envelope harness: "call" or "done" ("off" when unused)
    aJws,       \* envelope harness: the Jws handed to AdminApiRequest::try_from
    aOut,       \* envelope harness: what try_from returned
    qPc,        \* query harness: "call", "serialize" or "done" ("off" when unused)
    qArgs,      \* query harness: the arguments of create_query_request
    qReq,       \* query harness: the api::QueryRequest it returned
    qJson,      \* query harness: the JSON object the request serializes to,
                \* the sequence of its members in their order
    store,      \* race: the remote store's state of the one stream, its log
                \* and its content
    wPc,        \* race: for each caller, the position of its operation in
                \* its sequence of steps, 0 when it has ended
    wCall,      \* race: for each caller, the operation it runs
    wResp,      \* race: for each caller, the response it fetched
    wReq,       \* race: for each caller, the request it built
    wBody,      \* race: for each caller, the body the remote answered its
                \* last request with, if it answered
    wResult,    \* race: for each caller, what its operation returned
    wSent,      \* race: for each caller, the requests it has sent
    wStale,     \* race: for each caller, whether the tip of the commit it
                \* posted was no longer the tip of the remote
    pc,         \* remote client: 0 when no operation runs, else the position
                \* of the running operation in its sequence of steps
    call,       \* remote client: the operation invoked last, and its arguments
    resp,       \* remote client: `resp`, the decoded response of the fetch
                \* (update, replace, get_as) or of the query (query_as)
    req,        \* remote client: `req`, the request the builder returned
    body,       \* remote client: the body the remote sent last
    result,     \* remote client: what the operation returned (<<>>: running)
    steps,      \* remote client: the steps this invocation has taken, with
                \* the requests it has sent
    signs,      \* remote client: calls this invocation made to the signer
    earlierTip, \* the tip an earlier update or replace fetched ("" if none)
    client      \* remote client: the fields of CeramicRemoteHttpClient, the
                \* signer identity and the base url

rvars == <<rPc, rCaller, rContext, rBody, rDecoded, rOut>>

bvars == <<bPc, bFn, bArgs, bExt, bOut>>

avars == <<aPc, aJws, aOut>>

cvars == <<pc, call, resp, req, body, result, steps, signs, earlierTip, client>>

qvars == <<qPc, qArgs, qReq, qJson>>

wvars == <<store, wPc, wCall, wResp, wReq, wBody, wResult, wSent, wStale>>

vars == <<rvars, bvars, avars, qvars, wvars, cvars>>

\* the variables of the other parts, for the actions of each part
notR == <<bvars, avars, qvars, wvars, cvars>>

notB == <<rvars, avars, qvars, wvars, cvars>>

notA == <<rvars, bvars, qvars, wvars, cvars>>

notC == <<rvars, bvars, avars, qvars, wvars>>

notQ == <<rvars, bvars, avars, wvars, cvars>>

notW == <<rvars, bvars, avars, qvars, cvars>>

(***************************************************************************)
(* Bounds of the model                                                     *)
(***************************************************************************)
\* longest stream log the remote returns
MaxLog == 2

\* most signatures of a Jws
MaxSignatures == 2

\* most edges of a query response
MaxEdges == 2

(***************************************************************************)
(* Option<T> is a sequence of length at most one; anyhow::Result<T> is a   *)
(* record.                                                                 *)
(***************************************************************************)
None == <<>>

Some(x) == <<x>>

Ok(v) == [ok |-> TRUE, err |-> "", val |-> <<v>>]

Err(m) == [ok |-> FALSE, err |-> m, val |-> <<>>]

Last(s) == s[Len(s)]

(***************************************************************************)
(* Value types                                                             *)
(***************************************************************************)
\* ceramic_event::StreamId: a kind tag (Model, ModelInstanceDocument or
\* another StreamIdType) and the cid of the genesis commit
StreamIds ==
    { [type |-> "Model", cid |-> "gm"],
      [type |-> "ModelInstanceDocument", cid |-> "gd1"],
      [type |-> "ModelInstanceDocument", cid |-> "gd2"],
      [type |-> "Tile", cid |-> "gt"] }

NoStreamId == [type |-> "none", cid |-> ""]

\* StreamId::is_model, as used at lib.rs:121 and lib.rs:150
is_model(id) == id.type = "Model"

\* a kind check that lets model streams through as well
is_document_OrModel(id) == id.type \in {"ModelInstanceDocument", "Model"}

\* StreamId::is_document, as used at lib.rs:181
is_document(id) == id.type = "ModelInstanceDocument"

\* serde_json::Value, restricted to null, numbers and flat objects of numbers;
\* an object is the set of its <<key, number>> members
JNull == [kind |-> "null", num |-> 0, members |-> {}]

JNum(n) == [kind |-> "number", num |-> n, members |-> {}]

JObject(ms) == [kind |-> "object", num |-> 0, members |-> ms]

JKeys == {"a", "b"}

JNums == {1, 2}

JObjects ==
    { JObject({<<k, f[k]>> : k \in ks}) : <<ks, f>> \in
        { <<ks, f>> \in (SUBSET JKeys) \X [JKeys -> JNums] :
            \A k \in JKeys \ ks : f[k] = 1 } }

JValues == {JNull} \cup JObjects

\* a string that is no CID
BadCid == "zz"

\* the logs the remote returns: the first n commits of a stream, or one
\* entry whose cid does not parse
CidAt(i) == CASE i = 1 -> "c1" [] i = 2 -> "c2" [] i = 3 -> "c3" [] OTHER -> "c4"

LogOfLen(n) == [i \in 1..n |-> [cid |-> CidAt(i)]]

Logs == {LogOfLen(n) : n \in 0..MaxLog} \cup {<<[cid |-> BadCid]>>}

\* api::Metadata
TheMetadata == [controllers |-> <<"did:key:remote">>, model |-> "gm"]

\* api::StreamState
StreamState(content, log) == [content |-> content, log |-> log, metadata |-> TheMetadata]

StreamStates == {StreamState(c, l) : c \in JValues, l \in Logs}

NoState == StreamState(JNull, <<>>)

\* api::StreamsResponse
StreamsResponse(id, state) == [stream_id |-> id, state |-> state]

NoResponse == StreamsResponse(NoStreamId, None)

(***************************************************************************)
(* JSON bodies as the remote sends them.  A body is an object with any of  *)
(* the members error, streamId, state, edges and pageInfo, or something    *)
(* that is no object.                                                      *)
(***************************************************************************)
Messages == {"boom", "tip mismatch"}

\* the member "error": absent, a string, or some non-string value
ErrorFields ==
    {None, Some([isString |-> FALSE, s |-> ""])}
        \cup {Some([isString |-> TRUE, s |-> m]) : m \in Messages}

\* the member "streamId": absent, a value that parses as a StreamId, or not
StreamIdFields ==
    {None, Some([valid |-> FALSE, id |-> NoStreamId])}
        \cup {Some([valid |-> TRUE, id |-> id]) : id \in StreamIds}

\* the member "state": absent, null, a StreamState, or any other value
StateFieldsOver(states) ==
    {None, Some([kind |-> "null", st |-> NoState]),
           Some([kind |-> "malformed", st |-> NoState])}
        \cup {Some([kind |-> "value", st |-> st]) : st \in states}

\* a body may also carry the members edges and pageInfo of a query response
\* and the member code of an admin code response; it comes with the status
\* of the response, 200 unless said otherwise
BodyWith(form, e, id, st, edges, pageInfo) ==
    [form |-> form, error |-> e, streamId |-> id, state |-> st,
     edges |-> edges, pageInfo |-> pageInfo, code |-> <<>>, status |-> 200]

Body(form, e, id, st) == BodyWith(form, e, id, st, None, None)

NotAnObject == Body("other", None, None, None)

\* the member "code": absent, a string, or some non-string value
CodeFields ==
    {None, Some([isString |-> FALSE, s |-> ""])}
        \cup {Some([isString |-> TRUE, s |-> c]) : c \in {"code1", "code2"}}

\* a body of an admin endpoint: a status, and any of the members error,
\* streamId and code
AdminBody(status, form, e, id, code) ==
    [Body(form, e, id, None) EXCEPT !.status = status, !.code = code]

\* the text of a body, as `text()` returns it
TextOf(b) ==
    IF b.form # "object" THEN "Unauthorized"
    ELSE "{" \o (IF b.error # None
                 THEN "error:" \o (IF b.error[1].isString THEN b.error[1].s ELSE "null") \o ","
                 ELSE "")
             \o (IF b.streamId # None
                 THEN "streamId:" \o (IF b.streamId[1].valid THEN b.streamId[1].id.cid ELSE "null") \o ","
                 ELSE "")
             \o (IF b.code # None
                 THEN "code:" \o (IF b.code[1].isString THEN b.code[1].s ELSE "null") \o ","
                 ELSE "")
             \o "}"

BodiesOver(errors, ids, states) ==
    {Body("object", e, id, st) : e \in errors, id \in ids, st \in StateFieldsOver(states)}
        \cup {NotAnObject}

(***************************************************************************)
(* api.rs:107-118: #[serde(untagged)] enum StreamsResponseOrError.  serde  *)
(* tries the variants in the order they are declared, Error first, then    *)
(* Ok; a derived struct ignores members it does not know.                  *)
(***************************************************************************)
\* variant Error { error: String } (api.rs:112-115)
DecodesAsError(b) ==
    /\ b.form = "object"
    /\ b.error # None
    /\ b.error[1].isString

\* a state that has to be there
DecodesState_Required(b) == b.state # None /\ b.state[1].kind = "value"

\* Option<StreamState> (api.rs:104): absent and null are None
DecodesState(b) ==
    \/ b.state = None
    \/ b.state[1].kind \in {"null", "value"}

\* variant Ok(StreamsResponse) (api.rs:97-105, 117)
DecodesAsOk(b) ==
    /\ b.form = "object"
    /\ b.streamId # None
    /\ b.streamId[1].valid
    /\ DecodesState(b)

\* the StreamsResponse a body decodes to
DecodeStreamsResponse(b) ==
    StreamsResponse(b.streamId[1].id,
        IF b.state # None /\ b.state[1].kind = "value" THEN Some(b.state[1].st) ELSE None)

VariantError(m) == [variant |-> "Error", error |-> m, resp |-> NoResponse]

VariantOk(r) == [variant |-> "Ok", error |-> "", resp |-> r]

\* serde: "data did not match any variant of untagged enum"
NoVariant == [variant |-> "none", error |-> "", resp |-> NoResponse]

\* a decoder that tries the variant Ok before the variant Error
StreamsResponseOrError_OkFirst(b) ==
    IF DecodesAsOk(b) THEN VariantOk(DecodeStreamsResponse(b))
    ELSE IF DecodesAsError(b) THEN VariantError(b.error[1].s)
    ELSE NoVariant

\* Deserialize for StreamsResponseOrError
StreamsResponseOrError(b) ==
    IF DecodesAsError(b) THEN VariantError(b.error[1].s)
    ELSE IF DecodesAsOk(b) THEN VariantOk(DecodeStreamsResponse(b))
    ELSE NoVariant

\* a resolve that drops the context
resolve_NoContext(self, context) ==
    IF self.variant = "Error" THEN Err(self.error) ELSE Ok(self.resp)

\* api.rs:120-130: StreamsResponseOrError::resolve
resolve(self, context) ==
    IF self.variant = "Error"
    THEN Err(context \o ": " \o self.error)
    ELSE Ok(self.resp)

\* reqwest's error for a body json() cannot decode
DecodeError == "error decoding response body"

\* `.json().await?` into StreamsResponseOrError, then resolve(context)
json_then_resolve(b, context) ==
    LET d == StreamsResponseOrError(b)
    IN IF d.variant = "none" THEN Err(DecodeError) ELSE resolve(d, context)

\* the context each remote operation passes to resolve
\* (lib.rs:293, 336, 357, 378, 398)
ResolvingOps ==
    {"create_model", "create_single_instance", "create_list_instance", "update", "replace"}

\* a replace that resolves under the name of update
ContextOf_CopyPaste(op) == IF op = "replace" THEN "update" ELSE op

ContextOf(op) ==
    CASE op = "create_model" -> "create_model"
      [] op = "create_single_instance" -> "create_single_instance"
      [] op = "create_list_instance" -> "create_list_instance"
      [] op = "update" -> "update"
      [] op = "replace" -> "replace"

(***************************************************************************)
(* The signer and the event builder (ceramic_event, external).  A call to  *)
(* the signer may fail; so may the binary encoders (`to_vec`, `try_from`). *)
(* `ext` names what the external parts do during one call of a builder.    *)
(***************************************************************************)
Externals == {"ok", "sign_error", "encode_error"}

\* self.signer.id().id
SignerDid == "did:key:signer"

\* args.controllers().map(|c| c.id.clone()).collect()
Controllers == <<SignerDid>>

\* args.parent() of EventArgs::new(&self.signer): the model of all models
ParentOfModels == [type |-> "Unloadable", cid |-> "parent"]

\* ModelDefinition values (model_definition.rs), opaque here
ModelDefinitions == {"TestBall", "TestCube"}

\* the block a commit links to
Block(kind, parent, id, prev, data) ==
    [kind |-> kind, parent |-> parent, id |-> id, prev |-> prev, data |-> data]

\* Jws: the signer's envelope over a block, one signature with a protected header
Sign(block) ==
    [payload |-> block,
     signatures |-> <<[protected |-> Some("protected"), signature |-> "signature"]>>]

\* Base64String::from(bytes)
Base64(bytes) == [encoding |-> "base64", of |-> bytes]

\* DagCborEncoded, the `encoded` of an unsigned commit
DagCbor(block) == [encoding |-> "dag-cbor", of |-> block]

\* MultiBase36String::try_from(&StreamId)
MultiBase36(id) == [encoding |-> "base36", of |-> id]

\* api::BlockHeader with family "test"
BlockHeader(model) == [family |-> "test", controllers |-> Controllers, model |-> model]

\* api::CreateRequest / api::UpdateRequest around api::BlockData; a
\* CreateRequest has no stream_id
Request(type, header, data, jws, linked_block, cacao_block, stream_id) ==
    [type |-> type, header |-> header, data |-> data, jws |-> jws,
     linked_block |-> linked_block, cacao_block |-> cacao_block,
     stream_id |-> stream_id]

\* what a builder returns, with the number of calls it made to the signer
\* and the patch create_update_request was given, if it was called
BuiltWith(res, n, patch) == [res |-> res, signs |-> n, patch |-> patch]

Built(res, n) == BuiltWith(res, n, None)

SignError == "signer error"

EncodeError == "encode error"

NotAModel == "StreamId was not a model"

NotADocument == "StreamId was not a document"

NoCommits == "No commits found for stream "

CidError == "Failed to parse multihash"

\* lib.rs:69-94: create_model_request
create_model_request(model, ext) ==
    LET block == Block("genesis", ParentOfModels, "", "", model)
    IN IF ext = "sign_error" THEN Built(Err(SignError), 1)
       ELSE IF ext = "encode_error" THEN Built(Err(EncodeError), 1)
       ELSE Built(Ok(Request("Model", BlockHeader(Base64(ParentOfModels)),
                             Some(Base64(block)), Some(Sign(block)),
                             Some(Base64(block)), None, None)), 1)

\* a single-instance genesis that is signed like the list-instance one
create_single_instance_request_Signed(model_id, ext) ==
    LET block == [kind |-> "genesis", parent |-> model_id, id |-> "", prev |-> "",
                  data |-> JNull]
    IN IF ~is_model(model_id) THEN Built(Err(NotAModel), 0)
       ELSE IF ext = "sign_error" THEN Built(Err(SignError), 1)
       ELSE IF ext = "encode_error" THEN Built(Err(EncodeError), 1)
       ELSE Built(Ok(Request("ModelInstanceDocument", BlockHeader(Base64(model_id)),
                             Some(Base64(block)), Some(Sign(block)),
                             Some(Base64(block)), None, None)), 1)

\* lib.rs:116-142: create_single_instance_request; `args.init()` signs nothing
create_single_instance_request(model_id, ext) ==
    LET block == Block("genesis", model_id, "", "", JNull)
    IN IF ~is_model(model_id) THEN Built(Err(NotAModel), 0)
       ELSE IF ext = "encode_error" THEN Built(Err(EncodeError), 0)
       ELSE Built(Ok(Request("ModelInstanceDocument", BlockHeader(Base64(model_id)),
                             Some(DagCbor(block)), None, None, None, None)), 0)

\* lib.rs:144-172: create_list_instance_request
create_list_instance_request(model_id, data, ext) ==
    LET block == Block("genesis", model_id, "", "", data)
    IN IF ~is_model(model_id) THEN Built(Err(NotAModel), 0)
       ELSE IF ext = "sign_error" THEN Built(Err(SignError), 1)
       ELSE IF ext = "encode_error" THEN Built(Err(EncodeError), 1)
       ELSE Built(Ok(Request("ModelInstanceDocument", BlockHeader(Base64(model_id)),
                             Some(Base64(block)), Some(Sign(block)),
                             Some(Base64(block)), None, None)), 1)

\* the tip a builder takes from a log: here the first entry, not the last
TipOf_First(log) == log[1].cid

\* lib.rs:184: `s.log.last()`, the tip of a non-empty log
TipOf(log) == Last(log).cid

\* a builder that looks at the log before it looks at the kind of the stream
create_update_request_LogFirst(model, get, patch, ext) ==
    IF get.state # None /\ Len(get.state[1].log) > 0
    THEN IF ~is_document(get.stream_id) THEN BuiltWith(Err(NotADocument), 0, Some(patch))
         ELSE LET tip == TipOf(get.state[1].log)
                  block == Block("update", model, get.stream_id.cid, tip, patch)
              IN IF tip = BadCid THEN BuiltWith(Err(CidError), 0, Some(patch))
                 ELSE IF ext = "sign_error" THEN BuiltWith(Err(SignError), 1, Some(patch))
                 ELSE IF ext = "encode_error" THEN BuiltWith(Err(EncodeError), 1, Some(patch))
                 ELSE BuiltWith(Ok(Request("ModelInstanceDocument", BlockHeader(Base64(model)),
                                       Some(Base64(block)), Some(Sign(block)),
                                       Some(Base64(block)), None,
                                       Some(MultiBase36(get.stream_id)))), 1, Some(patch))
    ELSE BuiltWith(Err(NoCommits), 0, Some(patch))

\* a builder that asks the signer for the commit before it looks at the log
create_update_request_SignFirst(model, get, patch, ext) ==
    IF ~is_document(get.stream_id) THEN BuiltWith(Err(NotADocument), 0, Some(patch))
    ELSE IF ext = "sign_error" THEN BuiltWith(Err(SignError), 1, Some(patch))
    ELSE IF get.state # None /\ Len(get.state[1].log) > 0
    THEN LET tip == TipOf(get.state[1].log)
             block == Block("update", model, get.stream_id.cid, tip, patch)
         IN IF tip = BadCid THEN BuiltWith(Err(CidError), 1, Some(patch))
            ELSE IF ext = "encode_error" THEN BuiltWith(Err(EncodeError), 1, Some(patch))
            ELSE BuiltWith(Ok(Request("ModelInstanceDocument", BlockHeader(Base64(model)),
                                  Some(Base64(block)), Some(Sign(block)),
                                  Some(Base64(block)), None,
                                  Some(MultiBase36(get.stream_id)))), 1, Some(patch))
    ELSE BuiltWith(Err(NoCommits), 1, Some(patch))

\* lib.rs:174-210: create_update_request
create_update_request(model, get, patch, ext) ==
    IF ~is_document(get.stream_id) THEN BuiltWith(Err(NotADocument), 0, Some(patch))
    ELSE IF get.state # None /\ Len(get.state[1].log) > 0
    THEN LET tip == TipOf(get.state[1].log)
             block == Block("update", model, get.stream_id.cid, tip, patch)
         IN IF tip = BadCid THEN BuiltWith(Err(CidError), 0, Some(patch))
            ELSE IF ext = "sign_error" THEN BuiltWith(Err(SignError), 1, Some(patch))
            ELSE IF ext = "encode_error" THEN BuiltWith(Err(EncodeError), 1, Some(patch))
            ELSE BuiltWith(Ok(Request("ModelInstanceDocument", BlockHeader(Base64(model)),
                                  Some(Base64(block)), Some(Sign(block)),
                                  Some(Base64(block)), None,
                                  Some(MultiBase36(get.stream_id)))), 1, Some(patch))
    ELSE BuiltWith(Err(NoCommits), 0, Some(patch))

(***************************************************************************)
(* json_patch (external): a Patch is modelled as the set of its            *)
(* operations, the order of a Vec<PatchOperation> left out.                *)
(***************************************************************************)
PatchOp(op, path, value) == [op |-> op, path |-> path, value |-> value]

KeysOf(v) == {m[1] : m \in v.members}

ValueAt(v, k) == (CHOOSE m \in v.members : m[1] = k)[2]

\* json_patch::diff(left, right): nothing for equal values, member by
\* member for two objects, a replace of the root otherwise
diff(left, right) ==
    IF left = right THEN {}
    ELSE IF left.kind = "object" /\ right.kind = "object"
    THEN {PatchOp("remove", "/" \o k, JNull) : k \in KeysOf(left) \ KeysOf(right)}
         \cup {PatchOp("add", "/" \o k, JNum(ValueAt(right, k))) :
                 k \in KeysOf(right) \ KeysOf(left)}
         \cup {PatchOp("replace", "/" \o k, JNum(ValueAt(right, k))) :
                 k \in {j \in KeysOf(left) \cap KeysOf(right) :
                          ValueAt(left, j) # ValueAt(right, j)}}
    ELSE {PatchOp("replace", "", right)}

\* the previous content a replace diffs against: here {} for null content too
ExistingContent_NullAsEmpty(get) ==
    IF get.state # None /\ get.state[1].content # JNull
    THEN get.state[1].content
    ELSE JObject({})

\* lib.rs:220-224: the content of the state when there is a state, {} otherwise
ExistingContent(get) ==
    IF get.state # None THEN get.state[1].content ELSE JObject({})

\* a replace that writes the first commit of a stream that has no state
create_replace_request_Lenient(model, get, data, ext) ==
    LET patch == diff(ExistingContent(get), data)
        block == Block("update", model, get.stream_id.cid, "", patch)
    IN IF get.state = None /\ is_document(get.stream_id) /\ ext = "ok"
       THEN BuiltWith(Ok(Request("ModelInstanceDocument", BlockHeader(Base64(model)),
                                 Some(Base64(block)), Some(Sign(block)),
                                 Some(Base64(block)), None,
                                 Some(MultiBase36(get.stream_id)))), 1, Some(patch))
       ELSE create_update_request(model, get, patch, ext)

\* lib.rs:212-226: create_replace_request; `data` is a serde_json::Value,
\* for which serde_json::to_value cannot fail
create_replace_request(model, get, data, ext) ==
    create_update_request(model, get, diff(ExistingContent(get), data), ext)

(***************************************************************************)
(* api.rs:224-238: impl TryFrom<Jws> for AdminApiRequest.  A Jws is a      *)
(* payload and a list of signatures, each with an optional protected       *)
(* header.                                                                 *)
(***************************************************************************)
Jws(payload, signatures) == [payload |-> payload, signatures |-> signatures]

MissingSignature == "Invalid jws, no signatures"

\* a lookup of the first signature that has a protected header
maybe_sig_AnyProtected(value) ==
    IF \E i \in 1..Len(value.signatures) : value.signatures[i].protected # None
    THEN Some(value.signatures[
            CHOOSE i \in 1..Len(value.signatures) :
                /\ value.signatures[i].protected # None
                /\ \A j \in 1..(i - 1) : value.signatures[j].protected = None])
    ELSE None

\* api.rs:227-230: the first signature and its protected header, if both are there
maybe_sig(value) ==
    IF Len(value.signatures) > 0 /\ value.signatures[1].protected # None
    THEN Some(value.signatures[1])
    ELSE None

\* api.rs:231-236: format!("{}.{}.{}", protected, payload, sig), or the error
try_from(value) ==
    IF maybe_sig(value) # None
    THEN Ok([jws |-> maybe_sig(value)[1].protected[1] \o "." \o value.payload
                        \o "." \o maybe_sig(value)[1].signature])
    ELSE Err(MissingSignature)

\* lib.rs:65-67: the index endpoint
index_endpoint == "/api/v0/admin/modelData"

\* lib.rs:60-62: the code endpoint
admin_code_endpoint == "/api/v0/admin/getCode"

\* api::IndexModelData (api.rs:132-148): {modelData: [{streamID: model_id}]}
IndexModelData(model_id) == "{modelData:[{streamID:" \o model_id.cid \o "}]}"

\* api::AdminApiPayload (api.rs:198-209), as it is serialized for the signer
AdminApiPayload(code, request_path, request_body) ==
    "{code:" \o code \o ",requestPath:" \o request_path
             \o ",requestBody:" \o request_body \o "}"

\* Jws::for_data(&self.signer, &req): the signer's envelope over the
\* serialized payload, one signature with a protected header
for_data(input) ==
    Jws(input, <<[protected |-> Some("protected"), signature |-> "signature"]>>)

\* lib.rs:96-114: create_index_model_request; the kind of model_id is not
\* checked
create_index_model_request(model_id, code, ext) ==
    IF ext = "encode_error" THEN Built(Err(EncodeError), 0)
    ELSE IF ext = "sign_error" THEN Built(Err(SignError), 1)
    ELSE Built(try_from(for_data(
            AdminApiPayload(code, index_endpoint, IndexModelData(model_id)))), 1)

(***************************************************************************)
(* The query protocol: api::QueryRequest, api::QueryResponse and the typed *)
(* projection of query_as and get_as.                                      *)
(***************************************************************************)
\* lib.rs:228-241: create_query_request; it cannot fail and signs nothing
create_query_request(model, query, pagination) ==
    Built(Ok([model |-> model, account |-> SignerDid, query |-> query,
              pagination |-> pagination]), 0)

\* api.rs:262-269: Pagination::default()
DefaultPagination == [kind |-> "First", count |-> 100, cursor |-> None]

\* api::Pagination (api.rs:240-259): First {first, after} or Last {last, before}
Pagination(kind, count, cursor) == [kind |-> kind, count |-> count, cursor |-> cursor]

\* a member of a serialized JSON object
Member(key, value) == [key |-> key, value |-> value]

\* Serialize for StreamId: its string form
StreamIdString(id) == "k" \o id.cid

\* query::FilterQuery::Where, one field under one operator, and the JSON it
\* serializes to: {where: {field: {operator: value}}}
FilterQuery(field, op, value) == [field |-> field, op |-> op, value |-> value]

SerializeFilter(f) == "{where:{" \o f.field \o ":{" \o f.op \o ":" \o f.value \o "}}}"

\* a serialization that writes an absent cursor as null
SerializePagination_NullCursor(p) ==
    IF p.kind = "First"
    THEN <<Member("first", ToString(p.count)),
           Member("after", IF p.cursor # None THEN p.cursor[1] ELSE "null")>>
    ELSE <<Member("last", ToString(p.count)),
           Member("before", IF p.cursor # None THEN p.cursor[1] ELSE "null")>>

\* Serialize for Pagination (api.rs:240-259): untagged, so the members of
\* the variant alone; `skip_serializing_if` leaves out a cursor that is None
SerializePagination(p) ==
    IF p.kind = "First"
    THEN <<Member("first", ToString(p.count))>>
            \o (IF p.cursor # None THEN <<Member("after", p.cursor[1])>> ELSE <<>>)
    ELSE <<Member("last", ToString(p.count))>>
            \o (IF p.cursor # None THEN <<Member("before", p.cursor[1])>> ELSE <<>>)

\* Serialize for QueryRequest (api.rs:271-285): the members in the order of
\* the fields, `query` as queryFilters and left out when None, the
\* pagination flattened into the object
SerializeQueryRequest(r) ==
    <<Member("model", StreamIdString(r.model)), Member("account", r.account)>>
        \o (IF r.query # None
            THEN <<Member("queryFilters", SerializeFilter(r.query[1]))>> ELSE <<>>)
        \o SerializePagination(r.pagination)

\* api::QueryEdge around api::QueryNode
QueryEdge(content, log) == [cursor |-> "cursor", node |-> [content |-> content, log |-> log]]

\* api::QueryResponse
QueryResponse(edges, page_info) == [edges |-> edges, page_info |-> page_info]

\* Deserialize for QueryResponse (api.rs:321-329): both members are
\* required, the others are ignored
DecodesAsQueryResponse(b) ==
    /\ b.form = "object"
    /\ b.edges # None
    /\ b.pageInfo # None

DecodeQueryResponse(b) == QueryResponse(b.edges[1], b.pageInfo[1])

\* the type T of the caller: a struct with one required member, `a`;
\* serde_json::from_value::<T> fails on anything else and drops other members
DecodesAsT(content) == content.kind = "object" /\ "a" \in KeysOf(content)

FromValue(content) == [a |-> ValueAt(content, "a")]

FromValueError == "missing field a"

\* api::TypedQueryDocument
TypedQueryDocument(edge) ==
    [document |-> FromValue(edge.node.content), commits |-> edge.node.log]

\* a projection that leaves out the edges it cannot decode
collect_SkipBad(r) ==
    Ok([documents |->
            LET good == SelectSeq(r.edges, LAMBDA e : DecodesAsT(e.node.content))
            IN [i \in 1..Len(good) |-> TypedQueryDocument(good[i])],
        page_info |-> r.page_info])

\* lib.rs:451-464: every edge decoded and collected into a Result, the
\* first failure being the result
collect(r) ==
    IF \E i \in 1..Len(r.edges) : ~DecodesAsT(r.edges[i].node.content)
    THEN Err(FromValueError)
    ELSE Ok([documents |-> [i \in 1..Len(r.edges) |-> TypedQueryDocument(r.edges[i])],
             page_info |-> r.page_info])

\* lib.rs:412-417: the content of get_as
content_as(stream_id, r) ==
    IF r.state # None
    THEN IF DecodesAsT(r.state[1].content)
         THEN Ok(FromValue(r.state[1].content))
         ELSE Err(FromValueError)
    ELSE Err("No commits for stream " \o stream_id.cid)

(***************************************************************************)
(* CeramicRemoteHttpClient (lib.rs:253-466).  An operation is a sequence   *)
(* of steps, each ended by an `.await` or a `?`; a step that fails ends    *)
(* the operation with its error.                                           *)
(***************************************************************************)
\* an order that sends the request of a create before it is built
OpSteps_PostFirst(op) ==
    CASE op \in {"create_model", "create_single_instance", "create_list_instance"} ->
            <<"post", "build", "resolve">>
      [] op \in {"update", "replace"} -> <<"get", "build", "post", "resolve">>
      [] op = "get" -> <<"get">>
      [] op = "get_as" -> <<"get", "content">>
      [] op = "query" -> <<"build", "post", "json">>
      [] op = "query_as" -> <<"build", "post", "json", "collect">>
      [] op = "index_model" -> <<"code", "build", "post", "status">>

\* an update and a replace that fetch, build and submit a second time
OpSteps_Refetch(op) ==
    CASE op \in {"create_model", "create_single_instance", "create_list_instance"} ->
            <<"build", "post", "resolve">>
      [] op \in {"update", "replace"} ->
            <<"get", "build", "post", "get", "build", "post", "resolve">>
      [] op = "get" -> <<"get">>
      [] op = "get_as" -> <<"get", "content">>
      [] op = "query" -> <<"build", "post", "json">>
      [] op = "query_as" -> <<"build", "post", "json", "collect">>
      [] op = "index_model" -> <<"code", "build", "post", "status">>

\* the statements of each operation, in their order in the source:
\* lib.rs:283-294, 323-337, 340-359 (create), 362-379 (update), 382-399
\* (replace), 402-407 (get), 410-418 (get_as), 421-441 (query), 444-465
\* (query_as), 297-319 (index_model)
OpSteps(op) ==
    CASE op \in {"create_model", "create_single_instance", "create_list_instance"} ->
            <<"build", "post", "resolve">>
      [] op \in {"update", "replace"} -> <<"get", "build", "post", "resolve">>
      [] op = "get" -> <<"get">>
      [] op = "get_as" -> <<"get", "content">>
      [] op = "query" -> <<"build", "post", "json">>
      [] op = "query_as" -> <<"build", "post", "json", "collect">>
      [] op = "index_model" -> <<"code", "build", "post", "status">>

\* lib.rs:45-57: the endpoints
streams_endpoint == "/api/v0/streams"

commits_endpoint == "/api/v0/commits"

collection_endpoint == "/api/v0/collection"

\* the endpoint each operation posts to
EndpointOf(op) ==
    CASE op \in {"create_model", "create_single_instance", "create_list_instance"} ->
            streams_endpoint
      [] op \in {"update", "replace"} -> commits_endpoint
      [] op \in {"query", "query_as"} -> collection_endpoint
      [] op = "index_model" -> index_endpoint

\* lib.rs:403: format!("{}/{}", self.cli.streams_endpoint(), stream_id)
GetPath(stream_id) == streams_endpoint \o "/" \o stream_id.cid

TransportError == "error sending request"

\* Deserialize for api::AdminCodeResponse (api.rs:189-196)
DecodesAsAdminCode(b) ==
    /\ b.form = "object"
    /\ b.code # None
    /\ b.code[1].isString

AdminCodeResponse(code) == [code |-> code]

\* lib.rs:297-303: index_model decodes the body of the GET into AdminCodeResponse
code_json(b) ==
    IF DecodesAsAdminCode(b) THEN Ok(AdminCodeResponse(b.code[1].s)) ELSE Err(DecodeError)

\* reqwest::StatusCode::is_success: 200 to 299
is_success(status) == status >= 200 /\ status <= 299

\* the unit value of Ok(())
Unit == "()"

\* an outcome that resolves the body as the other operations do
status_then_text_Resolve(b) ==
    IF DecodesAsError(b) THEN Err("index_model: " \o b.error[1].s) ELSE Ok(Unit)

\* lib.rs:315-319: the outcome of index_model, from the status alone
status_then_text(b) ==
    IF is_success(b.status) THEN Ok(Unit) ELSE Err(TextOf(b))

\* lib.rs:405: get decodes the body into StreamsResponse, not
\* StreamsResponseOrError
get_json(b) ==
    IF DecodesAsOk(b) THEN Ok(DecodeStreamsResponse(b)) ELSE Err(DecodeError)

\* lib.rs:432-439: query decodes the body into QueryResponse
query_json(b) ==
    IF DecodesAsQueryResponse(b) THEN Ok(DecodeQueryResponse(b)) ELSE Err(DecodeError)

\* the arguments of an invocation
Call(op, model, model_id, stream_id, patch, data, query, pagination) ==
    [op |-> op, model |-> model, model_id |-> model_id, stream_id |-> stream_id,
     patch |-> patch, data |-> data, query |-> query, pagination |-> pagination]

\* an update that builds on the stream identifier of the caller, not on the
\* one of the fetched response
BuildOf_CallerStream(c, r, ext) ==
    CASE c.op = "create_model" -> create_model_request(c.model, ext)
      [] c.op = "create_single_instance" -> create_single_instance_request(c.model_id, ext)
      [] c.op = "create_list_instance" ->
            create_list_instance_request(c.model_id, c.data, ext)
      [] c.op = "update" ->
            create_update_request(c.model_id, [r[1] EXCEPT !.stream_id = c.stream_id],
                                  c.patch, ext)
      [] c.op = "replace" ->
            create_replace_request(c.model_id, [r[1] EXCEPT !.stream_id = c.stream_id],
                                   c.data, ext)
      [] c.op \in {"query", "query_as"} ->
            create_query_request(c.model_id, c.query, c.pagination)
      [] c.op = "index_model" -> create_index_model_request(c.model_id, r[1].code, ext)

\* the builder each operation calls (lib.rs:284, 304-307, 327, 345-348, 369,
\* 389, 427-430)
BuildOf(c, r, ext) ==
    CASE c.op = "create_model" -> create_model_request(c.model, ext)
      [] c.op = "create_single_instance" -> create_single_instance_request(c.model_id, ext)
      [] c.op = "create_list_instance" ->
            create_list_instance_request(c.model_id, c.data, ext)
      [] c.op = "update" -> create_update_request(c.model_id, r[1], c.patch, ext)
      [] c.op = "replace" -> create_replace_request(c.model_id, r[1], c.data, ext)
      [] c.op \in {"query", "query_as"} ->
            create_query_request(c.model_id, c.query, c.pagination)
      [] c.op = "index_model" -> create_index_model_request(c.model_id, r[1].code, ext)

\* what an operation makes of the resolved response: the creates return its
\* stream_id (lib.rs:293, 336, 358), update and replace return it whole
ResolvedOf(op, r) ==
    IF r.ok /\ op \in {"create_model", "create_single_instance", "create_list_instance"}
    THEN Ok(r.val[1].stream_id)
    ELSE r

\* a step of an invocation, with the request it sent, if it sent one
\* (lib.rs:277-280: url_for_path joins the path to the base url of the client)
Step(name, method, path, payload) ==
    [step |-> name, method |-> method, path |-> path, payload |-> payload,
     url |-> IF method = "" THEN "" ELSE client.url]

(***************************************************************************)
(* Each specification below exercises one part of the crate; the state of  *)
(* the parts it does not use stays as these predicates say.                *)
(***************************************************************************)
BuilderArgs(model, model_id, get, patch, data) ==
    [model |-> model, model_id |-> model_id, get |-> get, patch |-> patch, data |-> data]

NoArgs == BuilderArgs("", NoStreamId, NoResponse, {}, JNull)

ResolveIdle ==
    /\ rPc = "off"
    /\ rCaller = "none"
    /\ rContext = ""
    /\ rBody = None
    /\ rDecoded = NoVariant
    /\ rOut = Err("")

BuildIdle ==
    /\ bPc = "off"
    /\ bFn = "none"
    /\ bArgs = NoArgs
    /\ bExt = "ok"
    /\ bOut = Built(Err(""), 0)

AdminIdle ==
    /\ aPc = "off"
    /\ aJws = Jws("", <<>>)
    /\ aOut = Err("")

NoQueryArgs == [model |-> NoStreamId, query |-> None, pagination |-> DefaultPagination]

NoQueryRequest ==
    [model |-> NoStreamId, account |-> "", query |-> None, pagination |-> DefaultPagination]

QueryIdle ==
    /\ qPc = "off"
    /\ qArgs = NoQueryArgs
    /\ qReq = NoQueryRequest
    /\ qJson = <<>>

\* the base url the client is made with
BaseUrl == "http://ceramic"

NoCall == Call("none", "", NoStreamId, NoStreamId, {}, JNull, None, DefaultPagination)

\* the callers of the race
Workers == {1, 2}

RaceIdle ==
    /\ store = [log |-> <<>>, content |-> JNull]
    /\ wPc = [w \in Workers |-> 0]
    /\ wCall = [w \in Workers |-> NoCall]
    /\ wResp = [w \in Workers |-> None]
    /\ wReq = [w \in Workers |-> None]
    /\ wBody = [w \in Workers |-> None]
    /\ wResult = [w \in Workers |-> None]
    /\ wSent = [w \in Workers |-> <<>>]
    /\ wStale = [w \in Workers |-> FALSE]

\* the remote client as CeramicRemoteHttpClient::new leaves it (lib.rs:263-269)
ClientIdle ==
    /\ pc = 0
    /\ call = NoCall
    /\ resp = None
    /\ req = None
    /\ body = None
    /\ result = None
    /\ steps = <<>>
    /\ signs = 0
    /\ earlierTip = ""
    /\ client = [signer |-> SignerDid, url |-> BaseUrl]

(***************************************************************************)
(* The builders on their own: every create_*_request of CeramicHttpClient, *)
(* called once with arguments of every kind.                               *)
(***************************************************************************)
\* the patches a caller hands to update
Patches ==
    { {},
      {PatchOp("add", "/a", JNum(1))},
      {PatchOp("replace", "/a", JNum(2)), PatchOp("remove", "/b", JNull)} }

\* the responses of a GET a builder may be handed
Gets == {StreamsResponse(id, st) : id \in StreamIds,
                                   st \in {None} \cup {Some(x) : x \in StreamStates}}

ArgsOf(fn) ==
    CASE fn = "create_model_request" ->
            {BuilderArgs(m, NoStreamId, NoResponse, {}, JNull) : m \in ModelDefinitions}
      [] fn = "create_single_instance_request" ->
            {BuilderArgs("", id, NoResponse, {}, JNull) : id \in StreamIds}
      [] fn = "create_list_instance_request" ->
            {BuilderArgs("", id, NoResponse, {}, d) : id \in StreamIds, d \in JObjects}
      [] fn = "create_update_request" ->
            {BuilderArgs("", id, g, p, JNull) : id \in StreamIds, g \in Gets, p \in Patches}
      [] fn = "create_replace_request" ->
            {BuilderArgs("", id, g, {}, d) : id \in StreamIds, g \in Gets, d \in JObjects}

BuilderFns ==
    {"create_model_request", "create_single_instance_request",
     "create_list_instance_request", "create_update_request", "create_replace_request"}

InitBuild ==
    /\ ClientIdle
    /\ ResolveIdle
    /\ AdminIdle
    /\ QueryIdle
    /\ RaceIdle
    /\ bPc = "call"
    /\ bFn \in BuilderFns
    /\ bArgs \in ArgsOf(bFn)
    /\ bExt \in Externals
    /\ bOut = Built(Err(""), 0)

Returns(fn, out) ==
    /\ bPc = "call"
    /\ bFn = fn
    /\ bOut' = out
    /\ bPc' = "done"
    /\ UNCHANGED <<bFn, bArgs, bExt, notB>>

CallCreateModelRequest ==
    Returns("create_model_request", create_model_request(bArgs.model, bExt))

CallCreateSingleInstanceRequest ==
    Returns("create_single_instance_request",
            create_single_instance_request(bArgs.model_id, bExt))

CallCreateListInstanceRequest ==
    Returns("create_list_instance_request",
            create_list_instance_request(bArgs.model_id, bArgs.data, bExt))

CallCreateUpdateRequest ==
    Returns("create_update_request",
            create_update_request(bArgs.model_id, bArgs.get, bArgs.patch, bExt))

CallCreateReplaceRequest ==
    Returns("create_replace_request",
            create_replace_request(bArgs.model_id, bArgs.get, bArgs.data, bExt))

NextBuild ==
    \/ CallCreateModelRequest
    \/ CallCreateSingleInstanceRequest
    \/ CallCreateListInstanceRequest
    \/ CallCreateUpdateRequest
    \/ CallCreateReplaceRequest

SpecBuild == InitBuild /\ [][NextBuild]_vars

(***************************************************************************)
(* The resolver on its own: every body, every caller.                      *)
(***************************************************************************)
ResolveBodies == BodiesOver(ErrorFields, StreamIdFields, StreamStates)

OtherContexts == {"ctx", ""}

ResolveCallers == ResolvingOps \cup {"direct"}

\* a body has arrived for some caller
InitResolve ==
    /\ ClientIdle
    /\ BuildIdle
    /\ AdminIdle
    /\ QueryIdle
    /\ RaceIdle
    /\ rPc = "json"
    /\ rCaller \in ResolveCallers
    /\ rContext = ""
    /\ rBody \in {Some(b) : b \in ResolveBodies}
    /\ rDecoded = NoVariant
    /\ rOut = Err("")

\* `.json().await?`: serde decodes the body, a failure ends the call
DecodeBody ==
    /\ rPc = "json"
    /\ rDecoded' = StreamsResponseOrError(rBody[1])
    /\ IF rDecoded'.variant = "none"
       THEN rPc' = "done" /\ rOut' = Err(DecodeError)
       ELSE rPc' = "resolve" /\ rOut' = rOut
    /\ UNCHANGED <<rCaller, rContext, rBody, notR>>

\* a remote operation resolves the decoded body under its own name
ResolveByOperation ==
    /\ rPc = "resolve"
    /\ rCaller \in ResolvingOps
    /\ rContext' = ContextOf(rCaller)
    /\ rOut' = resolve(rDecoded, ContextOf(rCaller))
    /\ rPc' = "done"
    /\ UNCHANGED <<rCaller, rBody, rDecoded, notR>>

\* a user of the crate resolves the decoded body with a context of their own
ResolveDirect ==
    /\ rPc = "resolve"
    /\ rCaller = "direct"
    /\ \E c \in OtherContexts :
        /\ rContext' = c
        /\ rOut' = resolve(rDecoded, c)
    /\ rPc' = "done"
    /\ UNCHANGED <<rCaller, rBody, rDecoded, notR>>

NextResolve == DecodeBody \/ ResolveByOperation \/ ResolveDirect

SpecResolve == InitResolve /\ [][NextResolve]_vars


(***************************************************************************)
(* The envelope adapter on its own: every Jws of up to MaxSignatures       *)
(* signatures.                                                             *)
(***************************************************************************)
Signatures ==
    {[protected |-> p, signature |-> g] :
        p \in {None, Some("h1"), Some("h2")}, g \in {"s1", "s2"}}

SignatureLists == UNION {[1..n -> Signatures] : n \in 0..MaxSignatures}

InitAdmin ==
    /\ ClientIdle
    /\ ResolveIdle
    /\ BuildIdle
    /\ QueryIdle
    /\ RaceIdle
    /\ aPc = "call"
    /\ aJws \in {Jws(p, g) : p \in {"p1", "p2"}, g \in SignatureLists}
    /\ aOut = Err("")

\* AdminApiRequest::try_from(jws)
TryFromJws ==
    /\ aPc = "call"
    /\ aOut' = try_from(aJws)
    /\ aPc' = "done"
    /\ UNCHANGED <<aJws, notA>>

NextAdmin == TryFromJws

SpecAdmin == InitAdmin /\ [][NextAdmin]_vars

(***************************************************************************)
(* The query request on its own: create_query_request called once with     *)
(* arguments of every kind, and its result serialized.                     *)
(***************************************************************************)
FilterQueries ==
    {FilterQuery("id", "equalTo", "1"), FilterQuery("age", "greaterThan", "7")}

Paginations ==
    {Pagination(k, n, c) : k \in {"First", "Last"}, n \in {0, 1, 100},
                           c \in {None, Some("c1"), Some("c2")}}

InitQuery ==
    /\ ClientIdle
    /\ ResolveIdle
    /\ BuildIdle
    /\ AdminIdle
    /\ RaceIdle
    /\ qPc = "call"
    /\ qArgs \in [model : StreamIds,
                  query : {None} \cup {Some(f) : f \in FilterQueries},
                  pagination : Paginations]
    /\ qReq = NoQueryRequest
    /\ qJson = <<>>

\* lib.rs:228-241: create_query_request
CallCreateQueryRequest ==
    /\ qPc = "call"
    /\ qReq' = create_query_request(qArgs.model, qArgs.query, qArgs.pagination).res.val[1]
    /\ qPc' = "serialize"
    /\ UNCHANGED <<qArgs, qJson, notQ>>

\* serde_json::to_string(&req), as `.json(&req)` of the POST does
ToString_QueryRequest ==
    /\ qPc = "serialize"
    /\ qJson' = SerializeQueryRequest(qReq)
    /\ qPc' = "done"
    /\ UNCHANGED <<qArgs, qReq, notQ>>

NextQuery == CallCreateQueryRequest \/ ToString_QueryRequest

SpecQuery == InitQuery /\ [][NextQuery]_vars

(***************************************************************************)
(* The remote client: one caller invokes the operations one after another; *)
(* the remote answers every request with any body, or not at all.          *)
(***************************************************************************)
RemoteContents == {JNull, JObject({<<"a", 1>>})}

RemoteStates == {StreamState(c, LogOfLen(n)) : c \in RemoteContents, n \in 0..MaxLog}

RemoteStreamIds ==
    {id \in StreamIds : id.type \in {"Model", "ModelInstanceDocument"}}

\* the bodies the streams and commits endpoints answer with
RemoteStreamBodies ==
    BodiesOver({None, Some([isString |-> TRUE, s |-> "boom"])},
               {None} \cup {Some([valid |-> TRUE, id |-> id]) : id \in RemoteStreamIds},
               RemoteStates)

\* api::Commit, of the log of a query node
Commit(cid) == [cid |-> cid, value |-> None]

RemoteEdges ==
    {QueryEdge(c, l) :
        c \in {JObject({<<"a", 1>>}), JObject({<<"a", 2>>, <<"b", 1>>}), JObject({<<"b", 1>>})},
        l \in {<<>>, <<Commit("c1")>>}}

\* api::PageInfo
ThePageInfo ==
    [has_next_page |-> TRUE, has_previous_page |-> FALSE,
     end_cursor |-> "end", start_cursor |-> "start"]

\* the bodies the collection endpoint answers with
RemoteQueryBodies ==
    {BodyWith("object", e, None, None, edges, info) :
        e \in {None, Some([isString |-> TRUE, s |-> "boom"])},
        edges \in {None} \cup {Some(es) : es \in UNION {[1..n -> RemoteEdges] : n \in 0..MaxEdges}},
        info \in {None, Some(ThePageInfo)}}
      \cup {NotAnObject}

\* the bodies the code endpoint answers with
RemoteCodeBodies ==
    {AdminBody(st, "object", e, None, c) :
        st \in {200, 401}, e \in {None, Some([isString |-> TRUE, s |-> "boom"])},
        c \in CodeFields}
      \cup {AdminBody(401, "other", None, None, None)}

\* the answers of the index endpoint: any status with any body
RemoteIndexBodies ==
    {AdminBody(st, "object", e, id, None) :
        st \in {200, 204, 301, 400, 500},
        e \in {None, Some([isString |-> TRUE, s |-> "boom"])},
        id \in {None, Some([valid |-> TRUE, id |-> [type |-> "Model", cid |-> "gm"]])}}
      \cup {AdminBody(st, "other", None, None, None) : st \in {200, 401}}

BodiesFor(op) ==
    IF op \in {"query", "query_as"} THEN RemoteQueryBodies
    ELSE IF op = "index_model" THEN RemoteIndexBodies
    ELSE RemoteStreamBodies

\* the arguments the caller passes
CallerModels == {id \in StreamIds : id.cid \in {"gm", "gd1"}}

CallerPatches ==
    { {PatchOp("add", "/a", JNum(1))},
      {PatchOp("replace", "/a", JNum(2)), PatchOp("remove", "/b", JNull)} }

CallerData == {JObject({}), JObject({<<"a", 2>>})}

CallerPaginations ==
    {DefaultPagination, [kind |-> "Last", count |-> 5, cursor |-> Some("cursor")]}

Calls ==
    {Call("create_model", m, NoStreamId, NoStreamId, {}, JNull, None, DefaultPagination) :
        m \in ModelDefinitions}
    \cup {Call("create_single_instance", "", id, NoStreamId, {}, JNull, None,
               DefaultPagination) : id \in StreamIds}
    \cup {Call("create_list_instance", "", id, NoStreamId, {}, d, None,
               DefaultPagination) : id \in StreamIds, d \in CallerData}
    \cup {Call("update", "", m, id, p, JNull, None, DefaultPagination) :
            m \in CallerModels, id \in StreamIds, p \in CallerPatches}
    \cup {Call("replace", "", m, id, {}, d, None, DefaultPagination) :
            m \in CallerModels, id \in StreamIds, d \in CallerData}
    \cup {Call(op, "", NoStreamId, id, {}, JNull, None, DefaultPagination) :
            op \in {"get", "get_as"}, id \in StreamIds}
    \cup {Call(op, "", m, NoStreamId, {}, JNull, q, pg) :
            op \in {"query", "query_as"}, m \in CallerModels,
            q \in {None, Some("where")}, pg \in CallerPaginations}
    \cup {Call("index_model", "", id, NoStreamId, {}, JNull, None, DefaultPagination) :
            id \in StreamIds}

Init ==
    /\ ClientIdle
    /\ ResolveIdle
    /\ BuildIdle
    /\ AdminIdle
    /\ QueryIdle
    /\ RaceIdle

\* the step the running operation is at
StepIs(name) == pc > 0 /\ OpSteps(call.op)[pc] = name

IsLast == pc = Len(OpSteps(call.op))

\* a step that is tried again when it fails
Fails_Retry(e) == pc' = pc /\ result' = result

\* the step fails: `?` returns its error
Fails(e) == pc' = 0 /\ result' = Some(Err(e))

\* the step gives v: the operation returns it, or goes on
Gives(v) ==
    IF IsLast
    THEN pc' = 0 /\ result' = Some(Ok(v))
    ELSE pc' = pc + 1 /\ result' = result

Took(name) == steps' = Append(steps, Step(name, "", "", None))

\* the tip the invocation that just ended had fetched, if it was an update
\* or a replace and fetched one
FetchedTip ==
    IF /\ call.op \in {"update", "replace"}
       /\ resp # None
       /\ resp[1].state # None
       /\ resp[1].state[1].log # <<>>
    THEN Last(resp[1].state[1].log).cid
    ELSE earlierTip

\* a method that gives the client other fields
Borrowed_Mut == client' \in {client, [client EXCEPT !.url = "http://other"]}

\* every method takes `&self`: no field of the client is written
Borrowed == client' = client

\* the caller invokes an operation
Invoke ==
    /\ pc = 0
    /\ result = None
    /\ call = NoCall
    /\ \E c \in Calls : call' = c
    /\ pc' = 1
    /\ UNCHANGED <<resp, req, body, result, steps, signs, earlierTip, notC>>
    /\ Borrowed

\* the caller drops the future of a running operation at one of its awaits:
\* the operation takes no further step and returns nothing
Drop ==
    /\ pc > 0
    /\ pc' = 0
    /\ Borrowed
    /\ UNCHANGED <<call, resp, req, body, result, steps, signs, earlierTip, notC>>

\* the caller takes the result, if there is one; the locals of the
\* invocation are dropped
Return ==
    /\ pc = 0
    /\ call # NoCall
    /\ call' = NoCall
    /\ resp' = None
    /\ req' = None
    /\ body' = None
    /\ result' = None
    /\ steps' = <<>>
    /\ signs' = 0
    /\ earlierTip' = FetchedTip
    /\ UNCHANGED <<pc, notC>>
    /\ Borrowed

\* lib.rs:402-407: get, on its own or as the first step of update, replace
\* and get_as
Get ==
    /\ StepIs("get")
    /\ steps' = Append(steps, Step("get", "GET", GetPath(call.stream_id), None))
    /\ \/ Fails(TransportError) /\ UNCHANGED <<resp, body>>
       \/ \E b \in RemoteStreamBodies :
            /\ body' = Some(b)
            /\ IF get_json(b).ok
               THEN resp' = get_json(b).val /\ Gives(get_json(b).val[1])
               ELSE resp' = resp /\ Fails(DecodeError)
    /\ UNCHANGED <<call, req, signs, earlierTip, notC>>
    /\ Borrowed

\* lib.rs:297-303: the GET of the admin code, decoded into AdminCodeResponse
Code ==
    /\ StepIs("code")
    /\ steps' = Append(steps, Step("code", "GET", admin_code_endpoint, None))
    /\ \/ Fails(TransportError) /\ UNCHANGED <<resp, body>>
       \/ \E b \in RemoteCodeBodies :
            /\ body' = Some(b)
            /\ IF code_json(b).ok
               THEN resp' = code_json(b).val /\ pc' = pc + 1 /\ result' = result
               ELSE resp' = resp /\ Fails(DecodeError)
    /\ UNCHANGED <<call, req, signs, earlierTip, notC>>
    /\ Borrowed

\* lib.rs:315-319: index_model looks at the status of the response
Status ==
    /\ StepIs("status")
    /\ Took("status")
    /\ result' = Some(status_then_text(body[1]))
    /\ pc' = 0
    /\ UNCHANGED <<call, resp, req, body, signs, earlierTip, notC>>
    /\ Borrowed

\* lib.rs:412-417: get_as decodes the content of the state
Content ==
    /\ StepIs("content")
    /\ Took("content")
    /\ result' = Some(content_as(call.stream_id, resp[1]))
    /\ pc' = 0
    /\ UNCHANGED <<call, resp, req, body, signs, earlierTip, notC>>
    /\ Borrowed

\* the builder of the operation, with whatever the signer and the encoders
\* do; the step keeps the patch the builder worked with, if it had one
Build ==
    /\ StepIs("build")
    /\ \E ext \in Externals :
        LET built == BuildOf(call, resp, ext)
        IN /\ steps' = Append(steps, Step("build", "", "", built.patch))
           /\ signs' = signs + built.signs
           /\ IF built.res.ok
              THEN req' = built.res.val /\ pc' = pc + 1 /\ result' = result
              ELSE req' = req /\ Fails(built.res.err)
    /\ UNCHANGED <<call, resp, body, earlierTip, notC>>
    /\ Borrowed

\* `.post(url).json(&req).send().await?`: the request fails, or the
\* response arrives whole, status and body
Post ==
    /\ StepIs("post")
    /\ steps' = Append(steps, Step("post", "POST", EndpointOf(call.op), req))
    /\ \/ Fails(TransportError) /\ UNCHANGED body
       \/ \E b \in BodiesFor(call.op) :
            /\ body' = Some(b)
            /\ pc' = pc + 1
            /\ result' = result
    /\ UNCHANGED <<call, resp, req, signs, earlierTip, notC>>
    /\ Borrowed

\* `.json().await?` into StreamsResponseOrError and resolve(context)
Resolve ==
    /\ StepIs("resolve")
    /\ Took("resolve")
    /\ result' = Some(ResolvedOf(call.op, json_then_resolve(body[1], ContextOf(call.op))))
    /\ pc' = 0
    /\ UNCHANGED <<call, resp, req, body, signs, earlierTip, notC>>
    /\ Borrowed

\* lib.rs:438-440: query decodes the body into QueryResponse
Json ==
    /\ StepIs("json")
    /\ Took("json")
    /\ IF query_json(body[1]).ok
       THEN resp' = query_json(body[1]).val /\ Gives(query_json(body[1]).val[1])
       ELSE resp' = resp /\ Fails(DecodeError)
    /\ UNCHANGED <<call, req, body, signs, earlierTip, notC>>
    /\ Borrowed

\* lib.rs:451-464: query_as decodes every edge
Collect ==
    /\ StepIs("collect")
    /\ Took("collect")
    /\ result' = Some(collect(resp[1]))
    /\ pc' = 0
    /\ UNCHANGED <<call, resp, req, body, signs, earlierTip, notC>>
    /\ Borrowed

Next ==
    \/ Invoke
    \/ Get
    \/ Content
    \/ Build
    \/ Post
    \/ Resolve
    \/ Json
    \/ Collect
    \/ Code
    \/ Status
    \/ Drop
    \/ Return

Spec == Init /\ [][Next]_vars

(***************************************************************************)
(* The race of two callers: each runs one update or replace of the same    *)
(* stream, their steps interleaved.  The remote store answers a GET with   *)
(* the state of the stream; it appends the commit of a POST that refers to *)
(* its tip, and a commit that refers to an older tip it rejects or appends *)
(* all the same.                                                           *)
(***************************************************************************)
RaceStream == [type |-> "ModelInstanceDocument", cid |-> "gd1"]

RaceModel == [type |-> "Model", cid |-> "gm"]

RaceCalls ==
    {Call("update", "", RaceModel, RaceStream, p, JNull, None, DefaultPagination) :
        p \in CallerPatches}
    \cup {Call("replace", "", RaceModel, RaceStream, {}, d, None, DefaultPagination) :
            d \in CallerData}

\* the cid of the commit the remote appends for a caller
NewCid(w) == "n" \o ToString(w)

\* the body the remote answers with: the stream and its state
StoreBody(st) ==
    Body("object", None, Some([valid |-> TRUE, id |-> RaceStream]),
         Some([kind |-> "value", st |-> StreamState(st.content, st.log)]))

\* the body the remote rejects a commit with
RejectBody == Body("object", Some([isString |-> TRUE, s |-> "tip mismatch"]), None, None)

InitRace ==
    /\ ClientIdle
    /\ ResolveIdle
    /\ BuildIdle
    /\ AdminIdle
    /\ QueryIdle
    /\ store \in {[log |-> LogOfLen(n), content |-> JObject({<<"a", 1>>})] : n \in 1..MaxLog}
    /\ wPc = [w \in Workers |-> 1]
    /\ wCall \in [Workers -> RaceCalls]
    /\ wResp = [w \in Workers |-> None]
    /\ wReq = [w \in Workers |-> None]
    /\ wBody = [w \in Workers |-> None]
    /\ wResult = [w \in Workers |-> None]
    /\ wSent = [w \in Workers |-> <<>>]
    /\ wStale = [w \in Workers |-> FALSE]

RaceStepIs(w, name) == wPc[w] > 0 /\ OpSteps(wCall[w].op)[wPc[w]] = name

\* the step of caller w fails: `?` returns its error
RaceFails(w, e) ==
    /\ wPc' = [wPc EXCEPT ![w] = 0]
    /\ wResult' = [wResult EXCEPT ![w] = Some(Err(e))]

RaceGoesOn(w) ==
    /\ wPc' = [wPc EXCEPT ![w] = wPc[w] + 1]
    /\ wResult' = wResult

\* lib.rs:368, 388: the GET of update and replace
RaceGet(w) ==
    /\ RaceStepIs(w, "get")
    /\ wSent' = [wSent EXCEPT ![w] =
                    Append(@, Step("get", "GET", GetPath(wCall[w].stream_id), None))]
    /\ \/ RaceFails(w, TransportError) /\ UNCHANGED <<wResp, wBody>>
       \/ /\ wBody' = [wBody EXCEPT ![w] = Some(StoreBody(store))]
          /\ wResp' = [wResp EXCEPT ![w] = get_json(StoreBody(store)).val]
          /\ RaceGoesOn(w)
    /\ UNCHANGED <<store, wCall, wReq, wStale, notW>>

\* lib.rs:369, 389: the builder of update and replace
RaceBuild(w) ==
    /\ RaceStepIs(w, "build")
    /\ \E ext \in Externals :
        LET built == BuildOf(wCall[w], wResp[w], ext)
        IN IF built.res.ok
           THEN wReq' = [wReq EXCEPT ![w] = built.res.val] /\ RaceGoesOn(w)
           ELSE wReq' = wReq /\ RaceFails(w, built.res.err)
    /\ UNCHANGED <<store, wCall, wResp, wBody, wSent, wStale, notW>>

\* lib.rs:370-376, 390-396: the POST of update and replace, and what the
\* remote store does with the commit
RacePost(w) ==
    /\ RaceStepIs(w, "post")
    /\ wSent' = [wSent EXCEPT ![w] = Append(@, Step("post", "POST", commits_endpoint, wReq[w]))]
    /\ LET stale == wReq[w][1].linked_block[1].of.prev # Last(store.log).cid
       IN /\ wStale' = [wStale EXCEPT ![w] = stale]
          /\ \/ /\ RaceFails(w, TransportError)
                /\ wBody' = [wBody EXCEPT ![w] = None]
                /\ store' = store
             \/ \E c \in RemoteContents :
                  LET appended == [log |-> Append(store.log, [cid |-> NewCid(w)]),
                                   content |-> c]
                  IN /\ store' = appended
                     /\ wBody' = [wBody EXCEPT ![w] = Some(StoreBody(appended))]
                     /\ RaceGoesOn(w)
             \/ /\ stale
                /\ store' = store
                /\ wBody' = [wBody EXCEPT ![w] = Some(RejectBody)]
                /\ RaceGoesOn(w)
    /\ UNCHANGED <<wCall, wResp, wReq, notW>>

\* lib.rs:375-378, 395-398: json() and resolve
RaceResolve(w) ==
    /\ RaceStepIs(w, "resolve")
    /\ wResult' = [wResult EXCEPT ![w] =
                      Some(json_then_resolve(wBody[w][1], ContextOf(wCall[w].op)))]
    /\ wPc' = [wPc EXCEPT ![w] = 0]
    /\ UNCHANGED <<store, wCall, wResp, wReq, wBody, wSent, wStale, notW>>

NextRace ==
    \/ \E w \in Workers : RaceGet(w)
    \/ \E w \in Workers : RaceBuild(w)
    \/ \E w \in Workers : RacePost(w)
    \/ \E w \in Workers : RaceResolve(w)

SpecRace == InitRace /\ [][NextRace]_vars

(***************************************************************************)
(* Claims about the resolver                                               *)
(***************************************************************************)
\* the body under examination, once serde has seen it
rDecodedYet == rPc \in {"resolve", "done"}

\* the body is an object whose member error is a string
HasStringError(b) == b.form = "object" /\ b.error # None /\ b.error[1].isString

\* the body is an object with a valid streamId and a state that is absent,
\* null or well formed
HasSuccessShape(b) ==
    /\ b.form = "object"
    /\ b.streamId # None
    /\ b.streamId[1].valid
    /\ (b.state = None \/ b.state[1].kind # "malformed")

\* C1, as stated: the success shape is tried first, so every body that
\* decodes as the success shape {streamId, state?} resolves as success
C1_SuccessFirst ==
    rDecodedYet /\ HasSuccessShape(rBody[1]) => rDecoded.variant = "Ok"

\* C1, amended: the error shape is tried first.  Every body with a string
\* error decodes as the error, whatever else it carries; the success shape is
\* tried only when that fails; a body of neither shape is a decode error and
\* never reaches resolve; a body with both a string error and a valid
\* streamId ends as an error.
C1_ErrorFirst ==
    rDecodedYet =>
        LET b == rBody[1]
        IN /\ HasStringError(b) =>
                rDecoded.variant = "Error" /\ rDecoded.error = b.error[1].s
           /\ ~HasStringError(b) /\ HasSuccessShape(b) =>
                rDecoded.variant = "Ok" /\ rDecoded.resp.stream_id = b.streamId[1].id
           /\ ~HasStringError(b) /\ ~HasSuccessShape(b) =>
                rDecoded.variant = "none" /\ rPc = "done" /\ rOut = Err(DecodeError)
           /\ rPc = "done" /\ HasStringError(b) /\ HasSuccessShape(b) => ~rOut.ok

\* C1 witness: a body with both "error": "boom" and a valid streamId has
\* been resolved by update, as an error
C1_Witness ==
    /\ rPc = "done"
    /\ rCaller = "update"
    /\ HasStringError(rBody[1])
    /\ HasSuccessShape(rBody[1])
    /\ rOut = Err("update: boom")

\* C2: resolve(c) on an error shell {error: m} fails with exactly
\* c + ": " + m, on a success shell it returns the decoded response
\* unchanged, and each operation passes its own name as c
C2_ResolveMessage ==
    rPc = "done" /\ rDecoded.variant # "none" =>
        LET b == rBody[1]
        IN /\ rDecoded.variant = "Error" =>
                rOut = Err(rContext \o ": " \o b.error[1].s)
           /\ rDecoded.variant = "Ok" =>
                /\ rOut.ok
                /\ rOut.val = <<rDecoded.resp>>
                /\ rOut.val[1].stream_id = b.streamId[1].id
                /\ rOut.val[1].state =
                      (IF b.state # None /\ b.state[1].kind = "value"
                       THEN <<b.state[1].st>> ELSE <<>>)
           /\ rCaller \in ResolvingOps => rContext = rCaller

\* C2 witness: {"error": "boom"} resolved by create_model
C2_Witness ==
    /\ rPc = "done"
    /\ rCaller = "create_model"
    /\ rBody[1] = Body("object", Some([isString |-> TRUE, s |-> "boom"]), None, None)
    /\ rOut = Err("create_model: boom")


(***************************************************************************)
(* Claims about the request builders                                       *)
(***************************************************************************)
bReturned(fn) == bPc = "done" /\ bFn = fn

\* the response handed to the builder has no state, or a state with an empty log
bNoTip == bArgs.get.state = None \/ bArgs.get.state[1].log = <<>>

\* C4, as stated: create_update_request on a response with no state or an
\* empty log always fails with the "no commits" error, without a call to the
\* signer and without a request
C4_AlwaysNoCommits ==
    bReturned("create_update_request") /\ bNoTip =>
        bOut.res = Err(NoCommits) /\ bOut.signs = 0

\* C4, amended: on a response with no state or an empty log
\* create_update_request always fails, without a call to the signer and
\* without a request; the error is "no commits" when the stream of the
\* response is of Document kind and "not a document" otherwise
C4_NoTipFails ==
    bReturned("create_update_request") /\ bNoTip =>
        /\ ~bOut.res.ok
        /\ bOut.res.val = <<>>
        /\ bOut.signs = 0
        /\ bOut.res.err =
             (IF bArgs.get.stream_id.type = "ModelInstanceDocument"
              THEN NoCommits ELSE NotADocument)

\* C4 witness: a Document stream with a state whose log is empty, refused
\* with "no commits" although the signer would have signed
C4_Witness ==
    /\ bReturned("create_update_request")
    /\ bArgs.get.stream_id.type = "ModelInstanceDocument"
    /\ bArgs.get.state # None
    /\ bArgs.get.state[1].log = <<>>
    /\ bExt = "ok"
    /\ bOut.res = Err(NoCommits)
    /\ bOut.signs = 0

\* C5: the builders check the kind of the stream before any signing: the two
\* instance builders refuse every model identifier that is not of Model kind
\* with "not a model", create_update_request refuses every target that is
\* not of Document kind with "not a document"; a Model identifier passes the
\* first check and a Document identifier the second
C5_KindChecked ==
    /\ (bReturned("create_single_instance_request")
          \/ bReturned("create_list_instance_request")) =>
        IF bArgs.model_id.type # "Model"
        THEN bOut.res = Err(NotAModel) /\ bOut.signs = 0
        ELSE bOut.res.err # NotAModel
    /\ bReturned("create_update_request") =>
        IF bArgs.get.stream_id.type # "ModelInstanceDocument"
        THEN bOut.res = Err(NotADocument) /\ bOut.signs = 0
        ELSE bOut.res.err # NotADocument

\* C5 witness: an update of a Model stream with a non-empty log, refused
\* with "not a document" before the signer is asked
C5_Witness ==
    /\ bReturned("create_update_request")
    /\ bArgs.get.stream_id.type = "Model"
    /\ bArgs.get.state # None
    /\ bArgs.get.state[1].log # <<>>
    /\ bExt = "ok"
    /\ bOut.res = Err(NotADocument)
    /\ bOut.signs = 0

\* there is prior content: a state whose content is not null
bPriorContent == bArgs.get.state # None /\ bArgs.get.state[1].content.kind # "null"

\* the patch of the update a request carries
PatchOfRequest(request) == request.linked_block[1].of.data

\* C7, as stated: the patch of a replace is diff(previous, desired) with
\* previous = {} whenever there is no prior content (no state, or null
\* content); it never diffs against null
C7_NullAsEmpty ==
    bReturned("create_replace_request") =>
        bOut.patch =
            <<diff(IF bPriorContent THEN bArgs.get.state[1].content ELSE JObject({}),
                   bArgs.data)>>

\* C7, amended: previous is the content of the fetched state whenever there
\* is a state, null included, and {} only when there is no state; the patch
\* goes to create_update_request unchanged, so a replace returns what the
\* update with that patch returns
C7_DiffAgainstState ==
    bReturned("create_replace_request") =>
        LET previous == IF bArgs.get.state # None
                        THEN bArgs.get.state[1].content ELSE JObject({})
            patch == diff(previous, bArgs.data)
        IN /\ bOut.patch = <<patch>>
           /\ bOut = create_update_request(bArgs.model_id, bArgs.get, patch, bExt)
           /\ bOut.res.ok => PatchOfRequest(bOut.res.val[1]) = patch

\* C7 witness: a replace of a document whose content is null, built: its
\* patch replaces the root
C7_Witness ==
    /\ bReturned("create_replace_request")
    /\ bArgs.get.state # None
    /\ bArgs.get.state[1].content = JNull
    /\ bOut.res.ok
    /\ PatchOfRequest(bOut.res.val[1]) = {PatchOp("replace", "", bArgs.data)}


\* the request a builder has returned
bRequest == bOut.res.val[1]

\* C16: every request a builder returns has the fields of its kind.  The
\* signed genesis requests (create_model, create_list_instance) and the
\* update requests (update, replace) carry data, jws and linkedBlock, with
\* data equal to linkedBlock, and no cacaoBlock; the unsigned single-instance
\* genesis carries data alone; create_model has the type Model, the others
\* ModelInstanceDocument; only the update requests carry a streamId
C16_FieldsOfKind ==
    bPc = "done" /\ bOut.res.ok =>
        /\ bRequest.cacao_block = <<>>
        /\ bRequest.data # <<>>
        /\ bFn \in {"create_model_request", "create_list_instance_request",
                    "create_update_request", "create_replace_request"} =>
             /\ bRequest.jws # <<>>
             /\ bRequest.linked_block # <<>>
             /\ bRequest.data = bRequest.linked_block
             /\ bRequest.data[1].encoding = "base64"
             /\ bRequest.jws[1].payload = bRequest.linked_block[1].of
             /\ bOut.signs = 1
        /\ bFn = "create_single_instance_request" =>
             /\ bRequest.jws = <<>>
             /\ bRequest.linked_block = <<>>
             /\ bRequest.data[1].encoding = "dag-cbor"
             /\ bOut.signs = 0
        /\ bRequest.type = (IF bFn = "create_model_request"
                            THEN "Model" ELSE "ModelInstanceDocument")
        /\ bRequest.stream_id # <<>>
             <=> bFn \in {"create_update_request", "create_replace_request"}
        /\ bRequest.header.family = "test"
        /\ bRequest.header.controllers = <<"did:key:signer">>

\* C16 witness: create_single_instance_request has returned a request with
\* data and nothing else
C16_Witness ==
    /\ bReturned("create_single_instance_request")
    /\ bOut.res.ok
    /\ bRequest.data # <<>>
    /\ bRequest.jws = <<>>
    /\ bRequest.linked_block = <<>>
    /\ bRequest.stream_id = <<>>

\* C19: in create_update_request the check of the kind of the stream comes
\* before the check of the log.  For a response whose stream identifier is
\* not of Document kind the call fails with "not a document" whether the log
\* is empty or not; "no commits" is returned exactly for the Document streams
\* with no state or an empty log
C19_KindBeforeLog ==
    bReturned("create_update_request") =>
        LET document == bArgs.get.stream_id.type = "ModelInstanceDocument"
            empty == bArgs.get.state = <<>> \/ Len(bArgs.get.state[1].log) = 0
        IN /\ ~document => bOut.res = [ok |-> FALSE, err |-> "StreamId was not a document",
                                       val |-> <<>>]
           /\ bOut.res.err = "No commits found for stream " <=> document /\ empty
           /\ ~document \/ empty => bOut.signs = 0

\* C19 witness: a stream of Model kind with no state, refused for its kind
\* and not for its log
C19_Witness ==
    /\ bReturned("create_update_request")
    /\ bArgs.get.stream_id.type = "Model"
    /\ bArgs.get.state = <<>>
    /\ bOut.res.err = "StreamId was not a document"

(***************************************************************************)
(* Claims about the envelope adapter                                       *)
(***************************************************************************)
\* C8: the conversion looks only at the first signature: it fails with the
\* missing-signature error when there is no signature or when the first has
\* no protected header, whatever the later ones carry, and otherwise gives
\* protected + "." + payload + "." + signature of the first signature
C8_FirstSignatureOnly ==
    aPc = "done" =>
        IF aJws.signatures = <<>> \/ Head(aJws.signatures).protected = <<>>
        THEN aOut = Err(MissingSignature)
        ELSE /\ aOut.ok
             /\ aOut.val[1].jws =
                  Head(aJws.signatures).protected[1] \o "." \o aJws.payload
                      \o "." \o Head(aJws.signatures).signature

\* C8 witness: two signatures, the first without a protected header, the
\* second with one: refused
C8_Witness ==
    /\ aPc = "done"
    /\ Len(aJws.signatures) = 2
    /\ aJws.signatures[1].protected = <<>>
    /\ aJws.signatures[2].protected # <<>>
    /\ aOut = Err(MissingSignature)


(***************************************************************************)
(* Claims about the remote client                                          *)
(***************************************************************************)
\* the operation has returned and the caller has not yet taken the result
returned == pc = 0 /\ result # None

\* the requests this invocation has sent, in order
Sent == SelectSeq(steps, LAMBDA x : x.method # "")

StepNames == [i \in 1..Len(steps) |-> steps[i].step]

IsPrefix(p, q) == Len(p) <= Len(q) /\ \A i \in 1..Len(p) : p[i] = q[i]

\* the tip the commit of a request refers to
TipOfRequest(request) == request.linked_block[1].of.prev

\* C3: every update and replace takes, in this order and one at a time, its
\* own GET of the stream, the build of the commit, one POST to the commits
\* endpoint and the resolve; the tip of the commit it posts is the cid of the
\* last log entry of the state that GET returned
C3_FetchBuildSubmit ==
    call.op \in {"update", "replace"} =>
        /\ IsPrefix(StepNames, <<"get", "build", "post", "resolve">>)
        /\ pc > 0 => Len(steps) = pc - 1
        /\ steps # <<>> =>
             steps[1] = Step("get", "GET", "/api/v0/streams/" \o call.stream_id.cid, <<>>)
        /\ \A i \in 1..Len(steps) :
             /\ steps[i].method = "GET" => i = 1
             /\ steps[i].method = "POST" =>
                  /\ i = 3
                  /\ steps[i].path = "/api/v0/commits"
                  /\ steps[i].payload # <<>>
                  /\ resp # <<>>
                  /\ resp[1].state # <<>>
                  /\ resp[1].state[1].log # <<>>
                  /\ TipOfRequest(steps[i].payload[1])
                       = resp[1].state[1].log[Len(resp[1].state[1].log)].cid
        /\ returned /\ Len(steps) = 4 =>
             /\ HasStringError(body[1]) =>
                  result[1] = Err(call.op \o ": " \o body[1].error[1].s)
             /\ ~HasStringError(body[1]) /\ HasSuccessShape(body[1]) =>
                  result[1].ok /\ result[1].val[1].stream_id = body[1].streamId[1].id

\* C3 witness: an update has run to its end; it posted a commit on the tip
\* c2 it fetched, while the invocation before it had fetched the tip c1
C3_Witness ==
    /\ returned
    /\ call.op = "update"
    /\ StepNames = <<"get", "build", "post", "resolve">>
    /\ result[1].ok
    /\ earlierTip = "c1"
    /\ TipOfRequest(steps[3].payload[1]) = "c2"

PreconditionErrors == {NotAModel, NotADocument, NoCommits}

\* the operation has failed on the kind of a stream or on an empty log
PreconditionFailed ==
    /\ returned
    /\ call.op \in {"create_single_instance", "create_list_instance", "update", "replace"}
    /\ ~result[1].ok
    /\ result[1].err \in PreconditionErrors

\* C6, as stated: when one of the four operations fails on the kind of a
\* stream or on an empty log, it has sent no request
C6_NoNetworkCall == PreconditionFailed => Sent = <<>>

\* C6, amended: such a failure comes before any POST.  The two creates have
\* then sent nothing; update and replace check the response they fetched, so
\* they have sent their GET of the stream and nothing else
C6_NoPostBeforePrecondition ==
    PreconditionFailed =>
        /\ \A i \in 1..Len(steps) : steps[i].method # "POST"
        /\ signs = 0
        /\ call.op \in {"create_single_instance", "create_list_instance"} =>
             Sent = <<>> /\ result[1].err = NotAModel
        /\ call.op \in {"update", "replace"} =>
             /\ Sent = <<Step("get", "GET", "/api/v0/streams/" \o call.stream_id.cid, <<>>)>>
             /\ result[1].err \in {NotADocument, NoCommits}

\* C6 witness: an update has failed with "no commits" after its GET
C6_Witness ==
    /\ PreconditionFailed
    /\ call.op = "update"
    /\ result[1].err = NoCommits
    /\ Len(Sent) = 1
    /\ Sent[1].method = "GET"

\* C9: query_as is all or nothing: if the content of one edge does not
\* decode, the call fails and returns no document; otherwise it returns one
\* document per edge, in the order of the edges, each with the log of its
\* edge, and the page info of the response
C9_AllOrNothing ==
    returned /\ call.op = "query_as" /\ StepNames = <<"build", "post", "json", "collect">> =>
        LET edges == body[1].edges[1]
            decodes(e) == e.node.content.kind = "object"
                            /\ \E m \in e.node.content.members : m[1] = "a"
        IN IF \E i \in 1..Len(edges) : ~decodes(edges[i])
           THEN ~result[1].ok /\ result[1].val = <<>>
           ELSE /\ result[1].ok
                /\ Len(result[1].val[1].documents) = Len(edges)
                /\ \A i \in 1..Len(edges) :
                     /\ <<"a", result[1].val[1].documents[i].document.a>>
                          \in edges[i].node.content.members
                     /\ result[1].val[1].documents[i].commits = edges[i].node.log
                /\ result[1].val[1].page_info = body[1].pageInfo[1]

\* C9 witness: two edges, the first decodes and the second does not: the
\* call has failed
C9_Witness ==
    /\ returned
    /\ call.op = "query_as"
    /\ body # <<>>
    /\ body[1].edges # <<>>
    /\ Len(body[1].edges[1]) = 2
    /\ DecodesAsT(body[1].edges[1][1].node.content)
    /\ ~DecodesAsT(body[1].edges[1][2].node.content)
    /\ body[1].pageInfo # <<>>
    /\ ~result[1].ok

\* the body is {error: message} and nothing else
IsErrorShell(b) ==
    /\ b.form = "object"
    /\ b.error # <<>>
    /\ b.error[1].isString
    /\ b.streamId = <<>>
    /\ b.state = <<>>
    /\ b.edges = <<>>
    /\ b.pageInfo = <<>>
    /\ b.code = <<>>

\* an operation on streams or on the collection has returned and the last
\* body it received was an error shell
GotErrorShell ==
    /\ returned
    /\ call.op # "index_model"
    /\ body # <<>>
    /\ IsErrorShell(body[1])

\* C10, as stated: every operation, the reads included, passes the body
\* through the resolver, so an error shell returned to any of them comes out
\* as an error with the name of the operation and the message of the remote
C10_EveryOperationResolves ==
    GotErrorShell => result[1] = Err(call.op \o ": " \o body[1].error[1].s)

\* C10, amended: only the POST of create_model, create_single_instance,
\* create_list_instance, update and replace goes through the resolver; an
\* error shell returned to get, get_as, query or query_as, or to the GET of
\* update or replace, comes out as a decode error without name or message
C10_OnlyPostsResolve ==
    GotErrorShell =>
        IF call.op \in {"create_model", "create_single_instance", "create_list_instance",
                        "update", "replace"}
           /\ Sent[Len(Sent)].method = "POST"
        THEN result[1] = Err(call.op \o ": " \o body[1].error[1].s)
        ELSE result[1] = Err(DecodeError)

\* C10 witness: {"error": "boom"} returned to a query, which failed to
\* decode it
C10_Witness ==
    /\ GotErrorShell
    /\ call.op = "query"
    /\ body[1].error[1].s = "boom"
    /\ result[1] = Err(DecodeError)

\* the indices of the requests of one method this invocation has sent
SentBy(method) == {i \in 1..Len(steps) : steps[i].method = method}

\* the errors a step can end with
ErrorsOfStep(name) ==
    CASE name \in {"get", "code"} -> {"error sending request", "error decoding response body"}
      [] name = "post" -> {"error sending request"}
      [] name = "build" ->
            {"signer error", "encode error", "StreamId was not a model",
             "StreamId was not a document", "No commits found for stream ",
             "Failed to parse multihash"}
      [] name = "json" -> {"error decoding response body"}
      [] name = "content" -> {"missing field a"} \cup {"No commits for stream " \o id.cid : id \in StreamIds}
      [] name = "collect" -> {"missing field a"}
      [] name = "resolve" ->
            {"error decoding response body"}
                \cup {op \o ": " \o m : op \in ResolvingOps, m \in Messages}
      [] name = "status" -> {TextOf(b) : b \in RemoteIndexBodies}

\* the state of an invocation that errors are terminal in
C11_StepsOnce ==
    call # NoCall =>
        /\ IsPrefix(StepNames, OpSteps(call.op))
        /\ \A i, j \in 1..Len(steps) : steps[i].step = steps[j].step => i = j
        /\ Cardinality(SentBy("GET")) <= 1
        /\ Cardinality(SentBy("POST")) <= 1
        /\ call.op \in {"update", "replace", "index_model"} =>
             \A i \in SentBy("GET") : \A j \in SentBy("POST") : i < j
        /\ call.op \in {"create_model", "create_single_instance", "create_list_instance",
                        "query", "query_as"} => SentBy("GET") = {}
        /\ call.op \in {"get", "get_as"} => SentBy("POST") = {}
        /\ pc > 0 => result = <<>> /\ Len(steps) = pc - 1
        /\ returned /\ ~result[1].ok =>
             /\ steps # <<>>
             /\ result[1].err \in ErrorsOfStep(steps[Len(steps)].step)
        /\ returned /\ result[1].ok => StepNames = OpSteps(call.op)

\* C11: errors are terminal and nothing is retried.  The steps an invocation
\* has taken are a prefix of the steps of its operation, each taken once: at
\* most one GET and one POST for update, replace and index_model, at most one
\* POST and no GET for the creates and the queries.  A step that fails ends
\* the operation with an error of that step; no step is taken again and no
\* step is taken after the operation has ended
C11_ErrorsTerminal ==
    /\ []C11_StepsOnce
    /\ [][/\ pc > 0 => pc' \in {0, pc + 1}
          /\ pc > 0 /\ pc' = pc + 1 => Len(steps') = Len(steps) + 1 /\ result' = <<>>
          /\ pc = 0 /\ call # NoCall => call' = NoCall /\ steps' = <<>> /\ pc' = 0]_vars

\* C11 witness: an update whose signer failed has ended with the signer's
\* error after its GET and its build, with no POST
C11_Witness ==
    /\ returned
    /\ call.op = "update"
    /\ result[1] = Err(SignError)
    /\ StepNames = <<"get", "build">>
    /\ SentBy("POST") = {}

\* the body is a success shell {streamId, state?} and nothing else
IsSuccessShell(b) ==
    /\ b.form = "object"
    /\ b.error = <<>>
    /\ b.streamId # <<>>
    /\ b.streamId[1].valid
    /\ (b.state = <<>> \/ b.state[1].kind \in {"null", "value"})

dropped == pc = 0 /\ result = <<>> /\ call # NoCall

\* an update or a replace that has not taken its submit step, the third
BeforeSubmit == call.op \in {"update", "replace"} /\ Len(steps) < 3

\* C15: no operation writes a field of the client: the signer identity and
\* the base url are those the client was made with, in every state and
\* across every step, whatever the outcome.  An update or a replace that has
\* failed or has been dropped before its submit step has sent no POST, only
\* its GET if anything, and once dropped it takes no further step
C15_NoMutation ==
    /\ [](/\ client = [signer |-> "did:key:signer", url |-> "http://ceramic"]
          /\ \A i \in 1..Len(steps) : steps[i].method # "" => steps[i].url = "http://ceramic"
          /\ BeforeSubmit =>
               /\ SentBy("POST") = {}
               /\ \A i \in 1..Len(steps) :
                    steps[i].method # "" =>
                        steps[i].method = "GET" /\ steps[i].path # "/api/v0/commits"
          /\ BeforeSubmit /\ (returned \/ dropped) => req = <<>> \/ StepNames = <<"get", "build">>)
    /\ [][/\ client' = client
          /\ dropped => steps' = <<>> /\ pc' = 0
          /\ pc > 0 /\ pc' = 0 /\ result' = <<>> => steps' = steps]_vars

\* C15 witness: an update has been dropped after it had fetched the stream
\* and built its request: nothing was posted and the client is as it was
C15_Witness ==
    /\ dropped
    /\ call.op = "update"
    /\ StepNames = <<"get", "build">>
    /\ req # <<>>
    /\ SentBy("POST") = {}
    /\ client = [signer |-> "did:key:signer", url |-> "http://ceramic"]

\* a replace has built against a fetched response that has no state
StatelessReplace ==
    /\ call.op = "replace"
    /\ Len(steps) >= 2
    /\ resp # <<>>
    /\ resp[1].state = <<>>

UpdateBuilt == call.op \in {"update", "replace"} /\ Len(steps) >= 2

\* C20: in update and replace the stream identifier of the caller is used
\* for the GET alone.  The check of the Document kind, the genesis cid given
\* to the signer and the streamId of the request are those of the stream
\* identifier in the fetched response, so the streamId submitted is the one
\* fetched; the model argument goes into the header whatever its kind
C20_FetchedStreamId ==
    UpdateBuilt =>
        /\ steps[1].path = "/api/v0/streams/" \o call.stream_id.cid
        /\ resp[1].stream_id.type # "ModelInstanceDocument" =>
             returned /\ result[1].err = "StreamId was not a document"
        /\ returned /\ result[1].err = "StreamId was not a document" =>
             resp[1].stream_id.type # "ModelInstanceDocument"
        /\ req # <<>> =>
             /\ req[1].stream_id = <<[encoding |-> "base36", of |-> resp[1].stream_id]>>
             /\ req[1].linked_block[1].of.id = resp[1].stream_id.cid
             /\ req[1].jws[1].payload.id = resp[1].stream_id.cid
             /\ req[1].header.model = [encoding |-> "base64", of |-> call.model_id]
             /\ req[1].linked_block[1].of.parent = call.model_id
        /\ \A i \in SentBy("POST") :
             /\ steps[i].payload = req
             /\ steps[i].payload[1].stream_id[1].of = resp[1].stream_id

\* C20 witness: an update called with a stream identifier of Tile kind and a
\* model argument of Document kind has posted a commit for the Document
\* stream the remote returned
C20_Witness ==
    /\ UpdateBuilt
    /\ call.op = "update"
    /\ call.stream_id.type = "Tile"
    /\ call.model_id.type = "ModelInstanceDocument"
    /\ resp[1].stream_id = [type |-> "ModelInstanceDocument", cid |-> "gd2"]
    /\ SentBy("POST") = {3}
    /\ steps[3].payload[1].stream_id[1].of.cid = "gd2"
    /\ steps[3].payload[1].header.model.of = call.model_id

(***************************************************************************)
(* Claims about the query request                                          *)
(***************************************************************************)
\* the keys of the serialized request, in their order
qKeys == [i \in 1..Len(qJson) |-> qJson[i].key]

qValue(key) == qJson[CHOOSE i \in 1..Len(qJson) : qJson[i].key = key].value

qHas(key) == \E i \in 1..Len(qJson) : qJson[i].key = key

\* C12: a query request serializes to one flat object with the keys model,
\* account, queryFilters (only when a filter is given) and then the
\* pagination fields, in this order; the pagination is first with an optional
\* after or last with an optional before, never both; a cursor that is
\* absent is left out, not written as null; the default pagination is
\* first = 100 without a cursor
C12_QuerySerialization ==
    qPc = "done" =>
        LET p == qArgs.pagination
            forward == <<"first">> \o (IF p.cursor = <<>> THEN <<>> ELSE <<"after">>)
            backward == <<"last">> \o (IF p.cursor = <<>> THEN <<>> ELSE <<"before">>)
        IN /\ qKeys = <<"model", "account">>
                        \o (IF qArgs.query = <<>> THEN <<>> ELSE <<"queryFilters">>)
                        \o (IF p.kind = "First" THEN forward ELSE backward)
           /\ \A i, j \in 1..Len(qJson) : qJson[i].key = qJson[j].key => i = j
           /\ qHas("first") # qHas("last")
           /\ qHas("after") => qHas("first") /\ qValue("after") = p.cursor[1]
           /\ qHas("before") => qHas("last") /\ qValue("before") = p.cursor[1]
           /\ \A i \in 1..Len(qJson) : qJson[i].value # "null"
           /\ qHas("first") => qValue("first") = ToString(p.count)
           /\ qHas("last") => qValue("last") = ToString(p.count)
           /\ qValue("account") = "did:key:signer"
           /\ p = [kind |-> "First", count |-> 100, cursor |-> <<>>] =>
                /\ qJson[Len(qJson)] = [key |-> "first", value |-> "100"]
                /\ ~qHas("after")

\* C12 witness: the request of the test of api.rs, a filter {id: equalTo 1}
\* with the default pagination, serialized to model, account, queryFilters,
\* first = 100
C12_Witness ==
    /\ qPc = "done"
    /\ qArgs.pagination = DefaultPagination
    /\ qArgs.query # <<>>
    /\ qKeys = <<"model", "account", "queryFilters", "first">>
    /\ qValue("queryFilters") = "{where:{id:{equalTo:1}}}"
    /\ qValue("first") = "100"

(***************************************************************************)
(* Claims about concurrent updates                                         *)
(***************************************************************************)
\* the requests of one method a caller has sent
wSentBy(w, method) == {i \in 1..Len(wSent[w]) : wSent[w][i].method = method}

\* the tip a caller fetched
wFetchedTip(w) == wResp[w][1].state[1].log[Len(wResp[w][1].state[1].log)].cid

\* the tip of the commit a caller posted
wPostedTip(w) == wReq[w][1].linked_block[1].of.prev

\* C17: with two updates or replaces of one stream running concurrently, a
\* caller whose commit refers to a tip that is no longer the tip of the
\* remote has fetched once and posted once, the commit being built on the
\* tip it fetched, and when it has ended it has returned what the remote
\* answered: the error of the remote under the name of the operation, or the
\* response of the remote.  No caller ever fetches or posts twice
C17_NoRefetchOnStaleTip ==
    \A w \in {1, 2} :
        /\ Cardinality(wSentBy(w, "GET")) <= 1
        /\ Cardinality(wSentBy(w, "POST")) <= 1
        /\ wStale[w] =>
             /\ wSentBy(w, "GET") = {1}
             /\ wSentBy(w, "POST") = {2}
             /\ wPostedTip(w) = wFetchedTip(w)
             /\ wSent[w][2].payload = wReq[w]
             /\ wPc[w] = 0 =>
                  wResult[w] =
                    IF wBody[w] = <<>>
                    THEN <<[ok |-> FALSE, err |-> "error sending request", val |-> <<>>]>>
                    ELSE
                    <<IF wBody[w][1].error # <<>>
                      THEN [ok |-> FALSE, val |-> <<>>,
                            err |-> wCall[w].op \o ": " \o wBody[w][1].error[1].s]
                      ELSE [ok |-> TRUE, err |-> "",
                            val |-> <<[stream_id |-> wBody[w][1].streamId[1].id,
                                       state |-> <<wBody[w][1].state[1].st>>]>>]>>

\* C17 witness: both callers fetched the same tip; the commit of the first
\* was appended, so the commit of the second referred to a tip that was no
\* longer the tip of the remote; the remote rejected it and the second caller
\* returned that error, having sent one GET and one POST
C17_Witness ==
    /\ wResp[1] # <<>>
    /\ wResp[2] # <<>>
    /\ wFetchedTip(1) = wFetchedTip(2)
    /\ wPc[1] = 0
    /\ wResult[1][1].ok
    /\ ~wStale[1]
    /\ wStale[2]
    /\ wPostedTip(2) # store.log[Len(store.log)].cid
    /\ wPc[2] = 0
    /\ wCall[2].op = "update"
    /\ wResult[2] = <<[ok |-> FALSE, err |-> "update: tip mismatch", val |-> <<>>]>>
    /\ Len(wSent[2]) = 2

====
